---- MODULE Spec2Model ----
(***************************************************************************)
(* A model of password-generator.py: the PasswordGenerator class, its      *)
(* three public methods (generate_password, generate_multiple_passwords,   *)
(* estimate_password_strength) and their helpers.                          *)
(*                                                                         *)
(* A character is a one-character string and a Python str is a sequence of *)
(* characters.  An exception is a record [type, msg]; NoError stands for   *)
(* "nothing was raised".                                                   *)
(***************************************************************************)
EXTENDS Integers, Sequences, FiniteSets

VARIABLES
    character_sets,  \* self.character_sets, the class table set by __init__
    op,              \* the public method called last ("none" before any call)
    status,          \* "idle", "running" (inside the batch loop), "returned", "raised"
    request,         \* the keyword arguments of generate_password
    count,           \* generate_multiple_passwords: count
    arg_password,    \* estimate_password_strength: password
    acc,             \* the list the comprehension of line 149 has built so far
    char_pool,       \* generate_password's local char_pool ("" while not built)
    ret_password,    \* the str generate_password returned
    ret_list,        \* the list generate_multiple_passwords returned
    ret_report,      \* the dict estimate_password_strength returned
    error,           \* the exception that left the call, or NoError
    draws,           \* calls of secrets.choice made by the call so far
    observed         \* an estimate call the observer remembers: [seen, password,
                     \* report, later], later = another call was made since

vars == <<character_sets, op, status, request, count, arg_password, acc, char_pool, ret_password, ret_list, ret_report, error, draws, observed>>

(***************************************************************************)
(* Bounds of the model.                                                    *)
(***************************************************************************)
\* The largest count generate_multiple_passwords is called with.
MaxCount == 2

\* estimate_password_strength inputs: a free prefix of at most MaxPrefix
\* characters followed by at most MaxPad repetitions of one character.
MaxPrefix == 3

MaxPad == 10

(***************************************************************************)
(* Program constants.                                                      *)
(***************************************************************************)
MIN_LENGTH == 8

MAX_LENGTH == 128

LENGTH_POINTS == 4

MAX_LENGTH_POINTS == 40

CLASS_POINTS == 15

VERY_STRONG == 80

STRONG == 60

MODERATE == 40

WEAK == 20

\* string.ascii_lowercase
ascii_lowercase == <<"a","b","c","d","e","f","g","h","i","j","k","l","m","n","o","p","q","r","s","t","u","v","w","x","y","z">>

\* string.ascii_uppercase
ascii_uppercase == <<"A","B","C","D","E","F","G","H","I","J","K","L","M","N","O","P","Q","R","S","T","U","V","W","X","Y","Z">>

\* string.digits
digits == <<"0","1","2","3","4","5","6","7","8","9">>

\* string.punctuation; "grave" stands for the backquote character (ASCII 96),
\* which a TLA+ string cannot hold.
punctuation == <<"!","\"","#","$","%","&","'","(",")","*","+",",","-",".","/",":",";","<","=",">","?","@","[","\\","]","^","_","grave","{","|","}","~">>

(***************************************************************************)
(* Python helpers.                                                         *)
(***************************************************************************)
\* The set of characters of a str.
Chars(s) == {s[i] : i \in 1..Len(s)}

\* s.replace(old, ''): s without the occurrences of the character old.
Replace(s, old) == SelectSeq(s, LAMBDA c : c # old)

\* ''.join(parts)
RECURSIVE Join(_)
Join(parts) == IF parts = <<>> THEN <<>> ELSE Head(parts) \o Join(Tail(parts))

\* any(char in char_set for char in password)
AnyIn(password, char_set) == LET members == Chars(char_set) IN \E i \in 1..Len(password) : password[i] \in members

\* min(a, b)
Min(a, b) == IF a < b THEN a ELSE b

NoError == [type |-> "None", msg |-> ""]

ValueError(msg) == [type |-> "ValueError", msg |-> msg]

RuntimeError(msg) == [type |-> "RuntimeError", msg |-> msg]

\* what secrets.choice raises on an empty sequence
IndexError(msg) == [type |-> "IndexError", msg |-> msg]

(***************************************************************************)
(* __init__                                                                *)
(***************************************************************************)
InitialCharacterSets == [lowercase |-> ascii_lowercase, uppercase |-> ascii_uppercase, digits |-> digits, symbols |-> punctuation]

(***************************************************************************)
(* _validate_parameters: the exception it raises, or NoError.              *)
(***************************************************************************)
\* Mutant: the check of the upper limit (lines 75-76) is missing.
ValidateWithoutUpperLimit(length, use_lowercase, use_uppercase, use_digits, use_symbols) ==
    IF length < MIN_LENGTH
    THEN ValueError("Password length must be at least 8 characters")
    ELSE IF ~(use_lowercase \/ use_uppercase \/ use_digits \/ use_symbols)
    THEN ValueError("At least one character set must be selected")
    ELSE NoError

ValidateParameters(length, use_lowercase, use_uppercase, use_digits, use_symbols) ==
    IF length < MIN_LENGTH
    THEN ValueError("Password length must be at least 8 characters")
    ELSE IF length > MAX_LENGTH
    THEN ValueError("Password length cannot exceed 128 characters")
    ELSE IF ~(use_lowercase \/ use_uppercase \/ use_digits \/ use_symbols)
    THEN ValueError("At least one character set must be selected")
    ELSE NoError

(***************************************************************************)
(* _build_character_pool: the parts appended to char_pool, joined.         *)
(***************************************************************************)
\* Mutant: line 93 removes 'o' only, 'l' stays in the lowercase letters.
BuildPoolKeepingL(sets, use_lowercase, use_uppercase, use_digits, use_symbols, exclude_similar) ==
    LET lowercase_chars == IF exclude_similar
                           THEN Replace(sets.lowercase, "o")
                           ELSE sets.lowercase
        uppercase_chars == IF exclude_similar
                           THEN Replace(Replace(sets.uppercase, "I"), "O")
                           ELSE sets.uppercase
        digit_chars     == IF exclude_similar
                           THEN Replace(Replace(sets.digits, "0"), "1")
                           ELSE sets.digits
        p1 == IF use_lowercase THEN <<lowercase_chars>> ELSE <<>>
        p2 == IF use_uppercase THEN Append(p1, uppercase_chars) ELSE p1
        p3 == IF use_digits THEN Append(p2, digit_chars) ELSE p2
        p4 == IF use_symbols THEN Append(p3, sets.symbols) ELSE p3
    IN  Join(p4)

\* Mutant: line 108 is missing, the symbols are appended whatever use_symbols is.
BuildPoolAlwaysSymbols(sets, use_lowercase, use_uppercase, use_digits, use_symbols, exclude_similar) ==
    LET lowercase_chars == IF exclude_similar
                           THEN Replace(Replace(sets.lowercase, "l"), "o")
                           ELSE sets.lowercase
        uppercase_chars == IF exclude_similar
                           THEN Replace(Replace(sets.uppercase, "I"), "O")
                           ELSE sets.uppercase
        digit_chars     == IF exclude_similar
                           THEN Replace(Replace(sets.digits, "0"), "1")
                           ELSE sets.digits
        p1 == IF use_lowercase THEN <<lowercase_chars>> ELSE <<>>
        p2 == IF use_uppercase THEN Append(p1, uppercase_chars) ELSE p1
        p3 == IF use_digits THEN Append(p2, digit_chars) ELSE p2
        p4 == Append(p3, sets.symbols)
    IN  Join(p4)

BuildCharacterPool(sets, use_lowercase, use_uppercase, use_digits, use_symbols, exclude_similar) ==
    LET lowercase_chars == IF exclude_similar
                           THEN Replace(Replace(sets.lowercase, "l"), "o")
                           ELSE sets.lowercase
        uppercase_chars == IF exclude_similar
                           THEN Replace(Replace(sets.uppercase, "I"), "O")
                           ELSE sets.uppercase
        digit_chars     == IF exclude_similar
                           THEN Replace(Replace(sets.digits, "0"), "1")
                           ELSE sets.digits
        p1 == IF use_lowercase THEN <<lowercase_chars>> ELSE <<>>
        p2 == IF use_uppercase THEN Append(p1, uppercase_chars) ELSE p1
        p3 == IF use_digits THEN Append(p2, digit_chars) ELSE p2
        p4 == IF use_symbols THEN Append(p3, sets.symbols) ELSE p3
    IN  Join(p4)

(***************************************************************************)
(* secrets.choice.  The outcome of a draw is not determined by the program *)
(* state: it is an input of the call, and any character of the pool is a   *)
(* possible outcome.  The model explores a part of these outcomes: the     *)
(* streams given by a tape [start, step], where draw number k (from 0) of  *)
(* a call lands on the character that is number (start + k * step) modulo  *)
(* m among the m characters of the pool that are in SampleChars.  Step 0   *)
(* draws one character again and again (a password of one class), step 1   *)
(* walks through the sampled pool (a password of every class of the pool), *)
(* step 2 takes every other character of it.  SampleChars holds a          *)
(* character of each class that exclude_similar keeps and visually similar *)
(* characters of two classes.                                              *)
(***************************************************************************)
SampleChars == {"a", "l", "A", "2", "0", "!"}

\* The positions of the pool a draw of the model can land on, in pool order.
Drawable(pool) == SelectSeq([i \in 1..Len(pool) |-> i], LAMBDA i : pool[i] \in SampleChars)

RandomTapes == [start : 0..(Cardinality(SampleChars) - 1), step : {0, 1, 2}]

\* secrets.choice(pool), the draw number k of the tape; d is Drawable(pool).
SecretsChoice(pool, d, tape, k) == pool[d[((tape.start + k * tape.step) % Len(d)) + 1]]

(***************************************************************************)
(* _generate_secure_password                                               *)
(***************************************************************************)
\* Mutant: range(length - 1), one draw too few.
GenerateOneCharacterShort(pool, length, tape) ==
    LET d == Drawable(pool)
    IN  IF length - 1 <= 0 THEN <<>>
        ELSE [k \in 1..(length - 1) |-> SecretsChoice(pool, d, tape, k - 1)]

GenerateSecurePassword(pool, length, tape) ==
    LET d == Drawable(pool)
    IN  IF length <= 0 THEN <<>>
        ELSE [k \in 1..length |-> SecretsChoice(pool, d, tape, k - 1)]

(***************************************************************************)
(* _ensure_password_requirements: the exception of the first requirement   *)
(* (in the order of the list) that the password misses, or NoError.        *)
(***************************************************************************)
\* Mutant: the digits requirement (line 130) is missing from the list.
EnsureWithoutDigits(password, use_lowercase, use_uppercase, use_digits, use_symbols) ==
    IF use_lowercase /\ ~AnyIn(password, ascii_lowercase)
    THEN RuntimeError("Failed to generate password with lowercase characters")
    ELSE IF use_uppercase /\ ~AnyIn(password, ascii_uppercase)
    THEN RuntimeError("Failed to generate password with uppercase characters")
    ELSE IF use_symbols /\ ~AnyIn(password, punctuation)
    THEN RuntimeError("Failed to generate password with symbols characters")
    ELSE NoError

EnsurePasswordRequirements(password, use_lowercase, use_uppercase, use_digits, use_symbols) ==
    IF use_lowercase /\ ~AnyIn(password, ascii_lowercase)
    THEN RuntimeError("Failed to generate password with lowercase characters")
    ELSE IF use_uppercase /\ ~AnyIn(password, ascii_uppercase)
    THEN RuntimeError("Failed to generate password with uppercase characters")
    ELSE IF use_digits /\ ~AnyIn(password, digits)
    THEN RuntimeError("Failed to generate password with digits characters")
    ELSE IF use_symbols /\ ~AnyIn(password, punctuation)
    THEN RuntimeError("Failed to generate password with symbols characters")
    ELSE NoError

(***************************************************************************)
(* generate_password: what one call does, given the tape of its draws:     *)
(* the exception that leaves it (or NoError), the password it returns, the *)
(* pool it built and the number of draws it made.                          *)
(***************************************************************************)
Outcome(err, pool, password, n) == [error |-> err, char_pool |-> pool, password |-> password, draws |-> n]

GeneratePassword(sets, req, tape) ==
    LET invalid == ValidateParameters(req.length, req.use_lowercase, req.use_uppercase, req.use_digits, req.use_symbols)
        pool == BuildCharacterPool(sets, req.use_lowercase, req.use_uppercase, req.use_digits, req.use_symbols, req.exclude_similar)
        password == GenerateSecurePassword(pool, req.length, tape)
        missing == EnsurePasswordRequirements(password, req.use_lowercase, req.use_uppercase, req.use_digits, req.use_symbols)
    IN  IF invalid # NoError THEN Outcome(invalid, <<>>, <<>>, 0)
        ELSE IF pool = <<>> THEN Outcome(IndexError("Cannot choose from an empty sequence"), pool, <<>>, IF req.length > 0 THEN 1 ELSE 0)
        ELSE IF missing # NoError THEN Outcome(missing, pool, <<>>, req.length)
        ELSE Outcome(NoError, pool, password, req.length)

(***************************************************************************)
(* estimate_password_strength                                              *)
(***************************************************************************)
\* No dict: the value of ret_report while no estimate has returned.
NoReport == [score |-> -1, strength |-> "None", length |-> -1, has_lowercase |-> FALSE, has_uppercase |-> FALSE, has_digits |-> FALSE, has_symbols |-> FALSE]

\* Mutant: the thresholds of lines 173-179 are exclusive (>, not >=).
EstimateExclusiveThresholds(password) ==
    LET length == Len(password)
        has_lower == AnyIn(password, ascii_lowercase)
        has_upper == AnyIn(password, ascii_uppercase)
        has_digit == AnyIn(password, digits)
        has_symbol == AnyIn(password, punctuation)
        s0 == 0
        s1 == s0 + Min(length * LENGTH_POINTS, MAX_LENGTH_POINTS)
        s2 == s1 + (IF has_lower THEN CLASS_POINTS ELSE 0)
        s3 == s2 + (IF has_upper THEN CLASS_POINTS ELSE 0)
        s4 == s3 + (IF has_digit THEN CLASS_POINTS ELSE 0)
        score == s4 + (IF has_symbol THEN CLASS_POINTS ELSE 0)
        strength == IF score > VERY_STRONG THEN "Very Strong"
                    ELSE IF score > STRONG THEN "Strong"
                    ELSE IF score > MODERATE THEN "Moderate"
                    ELSE IF score > WEAK THEN "Weak"
                    ELSE "Very Weak"
    IN  [score |-> score, strength |-> strength, length |-> length, has_lowercase |-> has_lower, has_uppercase |-> has_upper, has_digits |-> has_digit, has_symbols |-> has_symbol]

\* Mutant: line 165 is missing and the score is kept between the calls: a
\* call starts from the score of the call the observer remembers.
EstimateAccumulatingScore(password) ==
    LET length == Len(password)
        has_lower == AnyIn(password, ascii_lowercase)
        has_upper == AnyIn(password, ascii_uppercase)
        has_digit == AnyIn(password, digits)
        has_symbol == AnyIn(password, punctuation)
        s0 == IF observed.seen THEN observed.report.score ELSE 0
        s1 == s0 + Min(length * LENGTH_POINTS, MAX_LENGTH_POINTS)
        s2 == s1 + (IF has_lower THEN CLASS_POINTS ELSE 0)
        s3 == s2 + (IF has_upper THEN CLASS_POINTS ELSE 0)
        s4 == s3 + (IF has_digit THEN CLASS_POINTS ELSE 0)
        score == s4 + (IF has_symbol THEN CLASS_POINTS ELSE 0)
        strength == IF score >= VERY_STRONG THEN "Very Strong"
                    ELSE IF score >= STRONG THEN "Strong"
                    ELSE IF score >= MODERATE THEN "Moderate"
                    ELSE IF score >= WEAK THEN "Weak"
                    ELSE "Very Weak"
    IN  [score |-> score, strength |-> strength, length |-> length, has_lowercase |-> has_lower, has_uppercase |-> has_upper, has_digits |-> has_digit, has_symbols |-> has_symbol]

EstimatePasswordStrength(password) ==
    LET length == Len(password)
        has_lower == AnyIn(password, ascii_lowercase)
        has_upper == AnyIn(password, ascii_uppercase)
        has_digit == AnyIn(password, digits)
        has_symbol == AnyIn(password, punctuation)
        s0 == 0
        s1 == s0 + Min(length * LENGTH_POINTS, MAX_LENGTH_POINTS)
        s2 == s1 + (IF has_lower THEN CLASS_POINTS ELSE 0)
        s3 == s2 + (IF has_upper THEN CLASS_POINTS ELSE 0)
        s4 == s3 + (IF has_digit THEN CLASS_POINTS ELSE 0)
        score == s4 + (IF has_symbol THEN CLASS_POINTS ELSE 0)
        strength == IF score >= VERY_STRONG THEN "Very Strong"
                    ELSE IF score >= STRONG THEN "Strong"
                    ELSE IF score >= MODERATE THEN "Moderate"
                    ELSE IF score >= WEAK THEN "Weak"
                    ELSE "Very Weak"
    IN  [score |-> score, strength |-> strength, length |-> length, has_lowercase |-> has_lower, has_uppercase |-> has_upper, has_digits |-> has_digit, has_symbols |-> has_symbol]

(***************************************************************************)
(* generate_multiple_passwords: the comprehension of line 149.             *)
(***************************************************************************)
\* Mutant: range(count - 1), one iteration too few.
RangeExhaustedEarly(n, cnt) == n >= cnt - 1

\* range(count) is exhausted after n iterations.
RangeExhausted(n, cnt) == n >= cnt

\* Mutant: the exception of generate_password is caught and the list built
\* so far is returned.
IterationReturnsPartial(built, o) ==
    IF o.error # NoError
    THEN [status |-> "returned", error |-> o.error, acc |-> <<>>, ret_list |-> built]
    ELSE [status |-> "running", error |-> NoError, acc |-> Append(built, o.password), ret_list |-> <<>>]

\* One iteration: the call of generate_password either raises, and the
\* exception leaves generate_multiple_passwords with the list built so far
\* dropped, or returns a password that is appended to the list.
IterationOutcome(built, o) ==
    IF o.error # NoError
    THEN [status |-> "raised", error |-> o.error, acc |-> <<>>, ret_list |-> <<>>]
    ELSE [status |-> "running", error |-> NoError, acc |-> Append(built, o.password), ret_list |-> <<>>]

(***************************************************************************)
(* The inputs of the calls.                                                *)
(***************************************************************************)
Lengths == {0, MIN_LENGTH - 1, MIN_LENGTH, MAX_LENGTH, MAX_LENGTH + 1}

Requests == [length : Lengths, use_lowercase : BOOLEAN, use_uppercase : BOOLEAN, use_digits : BOOLEAN, use_symbols : BOOLEAN, exclude_similar : BOOLEAN]

\* generate_password's defaults (lines 24-29).
DefaultRequest == [length |-> 16, use_lowercase |-> TRUE, use_uppercase |-> TRUE, use_digits |-> TRUE, use_symbols |-> TRUE, exclude_similar |-> TRUE]

Counts == 0..MaxCount

Repeat(c, k) == [i \in 1..k |-> c]

\* The strings estimate_password_strength is called with between other calls.
EstimateInputs == {<<>>, Repeat("a", 8)}

\* " " is a character of none of the four classes.
StrengthChars == {"a", "Z", "7", "grave", " "}

RECURSIVE StringsUpTo(_)
StringsUpTo(n) == IF n = 0 THEN {<<>>} ELSE LET shorter == StringsUpTo(n - 1) IN shorter \cup {Append(s, c) : s \in shorter, c \in StrengthChars}

\* The strings the strength estimate is checked on.
StrengthInputs == {s \o Repeat(c, k) : s \in StringsUpTo(MaxPrefix), c \in StrengthChars, k \in 0..MaxPad}

NotObserved == [seen |-> FALSE, password |-> <<>>, report |-> NoReport, later |-> FALSE]

(***************************************************************************)
(* The state machine: a caller that makes one call after the other.  A     *)
(* call starts in the idle state; when it has returned or raised, the      *)
(* caller takes the result and is idle again.  generate_password and       *)
(* estimate_password_strength are one step each; a step of                 *)
(* generate_multiple_passwords is one iteration of its comprehension.      *)
(* observed is the observer's memory of one estimate call, not program     *)
(* state: no action reads it.                                              *)
(***************************************************************************)
Init ==
    /\ character_sets = InitialCharacterSets
    /\ op = "none"
    /\ status = "idle"
    /\ request = DefaultRequest
    /\ count = 0
    /\ arg_password = <<>>
    /\ acc = <<>>
    /\ char_pool = <<>>
    /\ ret_password = <<>>
    /\ ret_list = <<>>
    /\ ret_report = NoReport
    /\ error = NoError
    /\ draws = 0
    /\ observed = NotObserved

\* generator.generate_password(**req)
CallGeneratePassword(req, tape) ==
    /\ status = "idle"
    /\ \E o \in {GeneratePassword(character_sets, req, tape)} :
           /\ status' = IF o.error # NoError THEN "raised" ELSE "returned"
           /\ error' = o.error
           /\ char_pool' = o.char_pool
           /\ ret_password' = o.password
           /\ draws' = o.draws
    /\ op' = "generate_password"
    /\ request' = req
    /\ count' = 0
    /\ arg_password' = <<>>
    /\ acc' = <<>>
    /\ ret_list' = <<>>
    /\ ret_report' = NoReport
    /\ observed' = [observed EXCEPT !.later = observed.seen]
    /\ UNCHANGED character_sets

\* generator.generate_multiple_passwords(count=n, **req): entering the comprehension
CallGenerateMultiplePasswords(n, req) ==
    /\ status = "idle"
    /\ op' = "generate_multiple_passwords"
    /\ status' = "running"
    /\ request' = req
    /\ count' = n
    /\ arg_password' = <<>>
    /\ acc' = <<>>
    /\ char_pool' = <<>>
    /\ ret_password' = <<>>
    /\ ret_list' = <<>>
    /\ ret_report' = NoReport
    /\ error' = NoError
    /\ draws' = 0
    /\ observed' = [observed EXCEPT !.later = observed.seen]
    /\ UNCHANGED character_sets

\* one iteration of the comprehension: self.generate_password(**kwargs)
ComprehensionStep(tape) ==
    /\ status = "running"
    /\ ~RangeExhausted(Len(acc), count)
    /\ \E o \in {GeneratePassword(character_sets, request, tape)} :
         \E next \in {IterationOutcome(acc, o)} :
           /\ status' = next.status
           /\ error' = next.error
           /\ acc' = next.acc
           /\ char_pool' = o.char_pool
           /\ ret_list' = next.ret_list
           /\ draws' = draws + o.draws
    /\ UNCHANGED <<character_sets, op, request, count, arg_password, ret_password, ret_report, observed>>

\* the comprehension is over: the list is returned
ReturnList ==
    /\ status = "running"
    /\ RangeExhausted(Len(acc), count)
    /\ status' = "returned"
    /\ ret_list' = acc
    /\ acc' = <<>>
    /\ UNCHANGED <<character_sets, op, request, count, arg_password, char_pool, ret_password, ret_report, error, draws, observed>>

\* generator.estimate_password_strength(p); the observer may remember the call
Estimate(p, remember) ==
    /\ op' = "estimate_password_strength"
    /\ status' = "returned"
    /\ arg_password' = p
    /\ ret_report' = EstimatePasswordStrength(p)
    /\ observed' = IF remember THEN [seen |-> TRUE, password |-> p, report |-> EstimatePasswordStrength(p), later |-> FALSE] ELSE observed
    /\ request' = DefaultRequest
    /\ count' = 0
    /\ acc' = <<>>
    /\ char_pool' = <<>>
    /\ ret_password' = <<>>
    /\ ret_list' = <<>>
    /\ error' = NoError
    /\ draws' = 0
    /\ UNCHANGED character_sets

CallEstimatePasswordStrength(p, remember) ==
    /\ status = "idle"
    /\ Estimate(p, remember)

\* the caller has the result of the call (or its exception) and goes on
Resume ==
    /\ status \in {"returned", "raised"}
    /\ op' = "none"
    /\ status' = "idle"
    /\ request' = DefaultRequest
    /\ count' = 0
    /\ arg_password' = <<>>
    /\ acc' = <<>>
    /\ char_pool' = <<>>
    /\ ret_password' = <<>>
    /\ ret_list' = <<>>
    /\ ret_report' = NoReport
    /\ error' = NoError
    /\ draws' = 0
    /\ UNCHANGED <<character_sets, observed>>

Next ==
    \/ \E req \in Requests, tape \in RandomTapes : CallGeneratePassword(req, tape)
    \/ \E n \in Counts, req \in Requests : CallGenerateMultiplePasswords(n, req)
    \/ \E tape \in RandomTapes : ComprehensionStep(tape)
    \/ ReturnList
    \/ \E p \in EstimateInputs, remember \in BOOLEAN : CallEstimatePasswordStrength(p, remember)
    \/ Resume

Spec == Init /\ [][Next]_vars

(***************************************************************************)
(* The strength estimate as a function: the input is drawn by the initial  *)
(* state and the one action applies estimate_password_strength to it.      *)
(***************************************************************************)
InitStrength ==
    /\ character_sets = InitialCharacterSets
    /\ op = "none"
    /\ status = "idle"
    /\ request = DefaultRequest
    /\ count = 0
    /\ arg_password \in StrengthInputs
    /\ acc = <<>>
    /\ char_pool = <<>>
    /\ ret_password = <<>>
    /\ ret_list = <<>>
    /\ ret_report = NoReport
    /\ error = NoError
    /\ draws = 0
    /\ observed = NotObserved

EstimateInput ==
    /\ op = "none"
    /\ Estimate(arg_password, FALSE)

NextStrength == EstimateInput

SpecStrength == InitStrength /\ [][NextStrength]_vars

(***************************************************************************)
(* The properties.                                                         *)
(***************************************************************************)
\* Has the class whose full alphabet is given a character in string p?
HasClass(p, alphabet) == Chars(p) \cap Chars(alphabet) # {}

\* A request generate_password accepts.
ValidRequest(req) ==
    /\ req.length >= 8
    /\ req.length <= 128
    /\ req.use_lowercase \/ req.use_uppercase \/ req.use_digits \/ req.use_symbols

\* The visually similar characters.
SimilarChars == {"l", "o", "I", "O", "0", "1"}

\* An alphabet without the characters of a set.
Without(alphabet, excluded) == SelectSeq(alphabet, LAMBDA c : c \notin excluded)

\* The pool of a request, class by class in the order lowercase, uppercase,
\* digit, symbol.
ExpectedPool(req) ==
    (IF req.use_lowercase THEN (IF req.exclude_similar THEN Without(ascii_lowercase, {"l", "o"}) ELSE ascii_lowercase) ELSE <<>>)
    \o (IF req.use_uppercase THEN (IF req.exclude_similar THEN Without(ascii_uppercase, {"I", "O"}) ELSE ascii_uppercase) ELSE <<>>)
    \o (IF req.use_digits THEN (IF req.exclude_similar THEN Without(digits, {"0", "1"}) ELSE digits) ELSE <<>>)
    \o (IF req.use_symbols THEN punctuation ELSE <<>>)

GenerateReturned == op = "generate_password" /\ status = "returned"

GenerateRaised == op = "generate_password" /\ status = "raised"

BatchReturned == op = "generate_multiple_passwords" /\ status = "returned"

BatchRaised == op = "generate_multiple_passwords" /\ status = "raised"

EstimateReturned == op = "estimate_password_strength" /\ status = "returned"

\* C1: whenever generate_password returns a password, the password has
\* exactly the requested length, which is within 8..128.
C1_LengthExact ==
    GenerateReturned => /\ Len(ret_password) = request.length
                        /\ request.length \in 8..128

\* C1 witness: a password of the largest length has been returned.
C1_Witness == GenerateReturned /\ Len(ret_password) = 128

\* C2: whenever generate_password returns a password, the password holds at
\* least one character of the full alphabet of every enabled class.
C2_EveryEnabledClassPresent ==
    GenerateReturned => /\ request.use_lowercase => HasClass(ret_password, ascii_lowercase)
                        /\ request.use_uppercase => HasClass(ret_password, ascii_uppercase)
                        /\ request.use_digits => HasClass(ret_password, digits)
                        /\ request.use_symbols => HasClass(ret_password, punctuation)

\* C2 witness: a password was returned for a request with all four classes.
C2_Witness ==
    /\ GenerateReturned
    /\ request.use_lowercase /\ request.use_uppercase /\ request.use_digits /\ request.use_symbols
    /\ ~request.exclude_similar
    /\ Len(ret_password) = 8

\* C3: a call of generate_password whose length is below 8 or above 128, or
\* that enables no class, raises ValueError, returns no password, and has
\* neither built a pool nor made a draw.
C3_InvalidFailsBeforeAnyDraw ==
    (op = "generate_password" /\ (request.length < 8 \/ request.length > 128 \/ ~(request.use_lowercase \/ request.use_uppercase \/ request.use_digits \/ request.use_symbols)))
    => /\ status = "raised"
       /\ error.type = "ValueError"
       /\ ret_password = <<>>
       /\ char_pool = <<>>
       /\ draws = 0

\* C3 witness: a request of length 129 with classes enabled was rejected.
C3_Witness ==
    /\ GenerateRaised
    /\ request.length = 129
    /\ request.use_lowercase
    /\ error = ValueError("Password length cannot exceed 128 characters")
    /\ draws = 0

\* C4: generate_password fails for a missing class only after it has drawn
\* the password again: when it raises RuntimeError, it has made more draws
\* than the one attempt of request.length draws.
C4_FailsOnlyAfterRedraw ==
    (GenerateRaised /\ error.type = "RuntimeError") => draws > request.length

\* C5: with exclude_similar, no character of a returned password is one of
\* l, o, I, O, 0, 1, and the pool of the call holds none of them, while it
\* holds every symbol, the digits 2-9 and the other letters of the enabled
\* classes.
C5_SimilarExcluded ==
    (op = "generate_password" /\ ValidRequest(request) /\ request.exclude_similar)
    => /\ Chars(ret_password) \cap SimilarChars = {}
       /\ Chars(char_pool) \cap SimilarChars = {}
       /\ request.use_symbols => Chars(punctuation) \subseteq Chars(char_pool)
       /\ request.use_digits => {"2", "3", "4", "5", "6", "7", "8", "9"} \subseteq Chars(char_pool)
       /\ request.use_lowercase => (Chars(ascii_lowercase) \ {"l", "o"}) \subseteq Chars(char_pool)
       /\ request.use_uppercase => (Chars(ascii_uppercase) \ {"I", "O"}) \subseteq Chars(char_pool)

\* C5 witness: a password was returned for a request with exclude_similar
\* and the three classes that have similar characters.
C5_Witness ==
    /\ GenerateReturned
    /\ request.exclude_similar
    /\ request.use_lowercase /\ request.use_uppercase /\ request.use_digits
    /\ ~request.use_symbols

C9_PoolOfEnabledClasses ==
    (op = "generate_password" /\ ValidRequest(request))
    => /\ char_pool # <<>>
       /\ char_pool = ExpectedPool(request)
       /\ Chars(ret_password) \subseteq Chars(char_pool)
       /\ ~request.use_lowercase => ~HasClass(ret_password, ascii_lowercase)
       /\ ~request.use_uppercase => ~HasClass(ret_password, ascii_uppercase)
       /\ ~request.use_digits => ~HasClass(ret_password, digits)
       /\ ~request.use_symbols => ~HasClass(ret_password, punctuation)

\* C9 witness: a password was returned for a request with two classes
\* disabled.
C9_Witness ==
    /\ GenerateReturned
    /\ ~request.use_lowercase /\ request.use_uppercase /\ request.use_digits /\ ~request.use_symbols
    /\ ~request.exclude_similar
    /\ Len(ret_password) = 8

\* C10: when a call of generate_password inside generate_multiple_passwords
\* raises, generate_multiple_passwords raises that exception and returns no
\* list, not even the passwords built so far; with count >= 1 an invalid
\* request raises the ValueError of the validation with no draw made.
C10_BatchAllOrNothing ==
    /\ (op = "generate_multiple_passwords" /\ error # NoError)
       => /\ status = "raised"
          /\ ret_list = <<>>
          /\ acc = <<>>
          /\ IF ValidRequest(request)
             THEN error.type = "RuntimeError" /\ draws >= request.length /\ draws <= count * request.length
             ELSE error.type = "ValueError" /\ draws = 0
    /\ (op = "generate_multiple_passwords" /\ count >= 1 /\ ~ValidRequest(request) /\ status # "running")
       => (BatchRaised /\ error.type = "ValueError" /\ draws = 0)
    /\ BatchReturned => error = NoError

\* C10 witness: the batch raised after at least one password had been
\* generated: the passwords built so far were dropped.
C10_Witness ==
    /\ BatchRaised
    /\ error.type = "RuntimeError"
    /\ draws > request.length
    /\ ret_list = <<>>

\* C7: the report of estimate_password_strength on p has the score
\* min(4 * len(p), 40) + 15 * (number of classes present in p), which is
\* within 0..100, the first label of the thresholds 80, 60, 40, 20, the
\* length and the four has_X flags; "" gives 0 and Very Weak with all flags
\* false, and "aaaaaaaa" gives 47 and Moderate.
C7_StrengthFormula ==
    EstimateReturned =>
        LET p == arg_password
            present == {a \in {ascii_lowercase, ascii_uppercase, digits, punctuation} : HasClass(p, a)}
            expected == (IF 4 * Len(p) <= 40 THEN 4 * Len(p) ELSE 40) + 15 * Cardinality(present)
        IN  /\ ret_report.score = expected
            /\ ret_report.score \in 0..100
            /\ ret_report.strength = CASE expected >= 80 -> "Very Strong"
                                       [] expected \in 60..79 -> "Strong"
                                       [] expected \in 40..59 -> "Moderate"
                                       [] expected \in 20..39 -> "Weak"
                                       [] expected < 20 -> "Very Weak"
            /\ ret_report.length = Len(p)
            /\ ret_report.has_lowercase = HasClass(p, ascii_lowercase)
            /\ ret_report.has_uppercase = HasClass(p, ascii_uppercase)
            /\ ret_report.has_digits = HasClass(p, digits)
            /\ ret_report.has_symbols = HasClass(p, punctuation)
            /\ p = <<>> => ret_report = [score |-> 0, strength |-> "Very Weak", length |-> 0, has_lowercase |-> FALSE, has_uppercase |-> FALSE, has_digits |-> FALSE, has_symbols |-> FALSE]
            /\ p = <<"a", "a", "a", "a", "a", "a", "a", "a">> => (ret_report.score = 47 /\ ret_report.strength = "Moderate")

\* C7 witness: the report of "aaaaaaaa" is there, with score 47.
C7_Witness ==
    /\ EstimateReturned
    /\ arg_password = <<"a", "a", "a", "a", "a", "a", "a", "a">>
    /\ ret_report.score = 47

====
